---- MODULE Spec2Model ----
(***************************************************************************)
(* DotShop core: scan strategies, bit encodings, per-mode modulate         *)
(* strategies and the Modulator (src/dotshop/core/modulator.py) over the   *)
(* PixelMatrix and ScreenConfig of src/dotshop/core/data_structures.py.    *)
(*                                                                         *)
(* Specifications:                                                         *)
(*   SpecScan - one scan strategy object and the generators obtained from  *)
(*              get_pixel_order(), advanced one yield at a time;           *)
(*   SpecGen  - one PixelMatrix and one ScreenConfig as constructed, and   *)
(*              the Modulator.modulate call made on them;                  *)
(*   SpecOff  - SpecGen with calibration offsets and metadata;             *)
(*   SpecMat  - one PixelMatrix and one call of its interface;             *)
(*   SpecWrites - one PixelMatrix under sequences of writes;               *)
(*   SpecCfg  - one ScreenConfig under sequences of its setters, and the   *)
(*              Modulator holding it;                                      *)
(*   SpecDict - one ScreenConfig, its to_dict and the dicts loaded with    *)
(*              from_dict;                                                 *)
(*   SpecBits - the bit encodings called directly;                         *)
(*   SpecHeap - arrays, the matrices stored in them and the references the *)
(*              caller holds, under reads, copies and writes.              *)
(***************************************************************************)
EXTENDS Integers, Sequences, FiniteSets, Bags, TLC

VARIABLES strat, gens, mat, cfg, res, heap

vars == <<strat, gens, mat, cfg, res, heap>>

(***************************************************************************)
(* Bounds of the model.                                                    *)
(***************************************************************************)
MaxW == 2          \* widths 1..MaxW
MaxH == 2          \* non-page heights 1..MaxH
MaxGens == 2       \* generators alive at once on one strategy object
MaxArrays == 2     \* arrays allocated in one behaviour of SpecHeap

(***************************************************************************)
(* Program constants.                                                      *)
(***************************************************************************)
PageRows == 8      \* rows of one page, bits of one byte

Widths == 1..MaxW
\* heights of one and of two pages, for the page strategies
PageHeights == {PageRows, 2 * PageRows}

Heights == (1..MaxH) \cup PageHeights

(***************************************************************************)
(* Enumerations of data_structures.py.                                     *)
(***************************************************************************)
ColorMode == {"MONO", "GRAY_8", "RGB_888", "RGB_8888", "RGB565"}

ScanDirection ==
  {"HORIZONTAL", "VERTICAL", "HORIZONTAL_REVERSED", "VERTICAL_REVERSED",
   "BY_PAGE", "BY_PAGE_REVERSED"}

BitOrder == {"MSB_FIRST", "LSB_FIRST"}

(***************************************************************************)
(* Sequence helpers: Python's range() and nested for-loops.                *)
(***************************************************************************)
\* range(n): 0, 1, ..., n-1
RangeUp(n) == [i \in 1..n |-> i - 1]

\* range(n - 1, -1, -1): n-1, ..., 1, 0
RangeDown(n) == [i \in 1..n |-> n - i]

RECURSIVE Flatten(_)
Flatten(ss) == IF ss = <<>> THEN <<>> ELSE Head(ss) \o Flatten(Tail(ss))

\* for y in ys: for x in xs: yield (x, y)
RowLoop(ys, xs) ==
  Flatten([i \in 1..Len(ys) |-> [j \in 1..Len(xs) |-> <<xs[j], ys[i]>>]])

\* for x in xs: for y in ys: yield (x, y)
ColLoop(xs, ys) ==
  Flatten([i \in 1..Len(xs) |-> [j \in 1..Len(ys) |-> <<xs[i], ys[j]>>]])

(***************************************************************************)
(* Scan strategies (modulator.py): the coordinates get_pixel_order yields, *)
(* in order, as <<x, y>>.                                                  *)
(***************************************************************************)
ScanClasses ==
  {"HorizontalScanStrategy", "HorizontalReversedScanStrategy",
   "VerticalScanStrategy", "VerticalReversedScanStrategy",
   "VerticalScanStrategyByPage", "VerticalReversedScanStrategyByPage"}

PageClasses ==
  {"VerticalScanStrategyByPage", "VerticalReversedScanStrategyByPage"}

HorizontalOrder(w, h) == RowLoop(RangeUp(h), RangeUp(w))

\* a plausible slip: range(width - 1, 0, -1) stops before x = 0
HorizontalReversedOrderShort(w, h) ==
  RowLoop(RangeUp(h), SubSeq(RangeDown(w), 1, w - 1))

HorizontalReversedOrder(w, h) == RowLoop(RangeUp(h), RangeDown(w))

VerticalOrder(w, h) == ColLoop(RangeUp(w), RangeUp(h))

\* a plausible slip: the inner loop ascends as in VerticalScanStrategy
VerticalReversedOrderAscending(w, h) == ColLoop(RangeUp(w), RangeUp(h))

VerticalReversedOrder(w, h) == ColLoop(RangeUp(w), RangeDown(h))

\* for pageOrder in range(height // 8): for x in range(width):
\*   for y in ys: yield (x, pageOrder * 8 + y)
PageLoop(w, h, ys) ==
  Flatten([p \in 1..(h \div PageRows) |->
             ColLoop(RangeUp(w),
                     [j \in 1..Len(ys) |-> (p - 1) * PageRows + ys[j]])])

PageOrder(w, h) == PageLoop(w, h, RangeUp(PageRows))

PageReversedOrder(w, h) == PageLoop(w, h, RangeDown(PageRows))

\* the page strategies raise before their first yield when height % 8 != 0
RaisesAtStart(cls, h) == cls \in PageClasses /\ h % PageRows # 0

get_pixel_order(cls, w, h) ==
  CASE cls = "HorizontalScanStrategy" -> HorizontalOrder(w, h)
    [] cls = "HorizontalReversedScanStrategy" -> HorizontalReversedOrder(w, h)
    [] cls = "VerticalScanStrategy" -> VerticalOrder(w, h)
    [] cls = "VerticalReversedScanStrategy" -> VerticalReversedOrder(w, h)
    [] cls = "VerticalScanStrategyByPage" -> PageOrder(w, h)
    [] cls = "VerticalReversedScanStrategyByPage" -> PageReversedOrder(w, h)

(***************************************************************************)
(* SpecScan: a strategy object and its generators.                         *)
(* A generator is [st, out]: st is "fresh" (created, body not started),    *)
(* "running", "done" (StopIteration) or "raised"; out is what it yielded.  *)
(* gens is the bag of the generators alive: a generator holds no state but *)
(* its own position, so generators in equal states are interchangeable.    *)
(***************************************************************************)
NoMat == [mode |-> "MONO", width |-> 1, height |-> 1, data |-> <<<< <<0>> >>>>]
NoCfg == [width |-> 1, height |-> 1, supported_modes |-> <<"MONO">>,
          scan_direction |-> "HORIZONTAL", bit_order |-> "MSB_FIRST",
          row_offset |-> 0, col_offset |-> 0, metadata |-> {}]
NoRes == [op |-> "none", ok |-> TRUE, err |-> "", out |-> <<>>]
NoHeap == [arrays |-> <<>>, mats |-> <<>>, held |-> {}]

Generators == BagToSet(gens)

InitScan ==
  /\ \E cls \in ScanClasses, w \in Widths, h \in Heights :
       strat = [cls |-> cls, width |-> w, height |-> h]
  /\ gens = EmptyBag
  /\ mat = NoMat /\ cfg = NoCfg /\ res = NoRes /\ heap = NoHeap

\* calling get_pixel_order() creates a generator; nothing runs yet
GetPixelOrder ==
  /\ BagCardinality(gens) < MaxGens
  /\ gens' = gens (+) SetToBag({[st |-> "fresh", out |-> <<>>]})
  /\ UNCHANGED <<strat, mat, cfg, res, heap>>

\* the generator g after one more next(): the body runs up to its next yield
Advance(g) ==
  LET order == get_pixel_order(strat.cls, strat.width, strat.height)
      k == Len(g.out)
  IN IF g.st = "fresh" /\ RaisesAtStart(strat.cls, strat.height)
       THEN [st |-> "raised", out |-> g.out]
     ELSE IF k < Len(order)
       THEN [st |-> "running", out |-> Append(g.out, order[k + 1])]
     ELSE [st |-> "done", out |-> g.out]

\* next() on one of the generators
NextCoord ==
  \E g \in Generators :
    /\ g.st \in {"fresh", "running"}
    /\ gens' = (gens (-) SetToBag({g})) (+) SetToBag({Advance(g)})
    /\ UNCHANGED <<strat, mat, cfg, res, heap>>

\* the caller drops its generators
DropGenerators ==
  /\ gens # EmptyBag
  /\ gens' = EmptyBag
  /\ UNCHANGED <<strat, mat, cfg, res, heap>>

NextScan ==
  \/ GetPixelOrder
  \/ NextCoord
  \/ DropGenerators

SpecScan == InitScan /\ [][NextScan]_vars

(***************************************************************************)
(* Results of calls: ok with a value, or the failure that was raised.      *)
(* err names the failure by the site that raises it:                       *)
(*   "ResolutionMismatch"  ValueError, Modulator.__validate_input          *)
(*   "AttributeError"      a name that is no member of the enumeration     *)
(*   "UnmappedStrategy"    ValueError, find_scan_strategy / find_bit_...    *)
(*   "InvalidGeometry"     Exception, page strategies, height % 8 != 0     *)
(*   "ArityError"          ValueError, encode_by_bits, len(pixels) != 8    *)
(*   "NameError"           an unbound name is read                         *)
(*   "ByteRange"           ValueError, bytes() of a value outside 0..255   *)
(*   "OutOfRange"          IndexError, coordinate outside the matrix       *)
(*   "TypeMismatch"        TypeError, __validate_color_by_mode             *)
(*   "ModeMismatch"        ValueError, set_region, modes differ            *)
(*   "BroadcastError"      ValueError, array assignment, shapes differ     *)
(*   "RangeError"          ValueError, __validate_color_by_mode            *)
(*   "InvalidDimension"    ValueError, width or height no positive int     *)
(*   "InvalidOffset"       ValueError, an offset no non-negative int       *)
(*   "NoModes"             ValueError, supported_modes is empty            *)
(*   "LastMode"            ValueError, remove_supported_mode, one mode left*)
(*   "NotAMember"          TypeError, a value that is no member of the     *)
(*                         enumeration class expected                      *)
(*   "NoSuchValue"         ValueError, Enum(value) of no member's value    *)
(*   "KeyError"            a dict is read at a key it does not have        *)
(***************************************************************************)
Ok(v) == [ok |-> TRUE, err |-> "", val |-> v]
Err(e) == [ok |-> FALSE, err |-> e, val |-> <<>>]

(***************************************************************************)
(* PixelMatrix (data_structures.py).  data[y + 1][x + 1] is the element    *)
(* stored at row y, column x, written as the tuple of its channel values   *)
(* (one value for MONO, GRAY_8 and RGB565).                                *)
(***************************************************************************)
Channels(mode) ==
  CASE mode = "RGB_888" -> 3
    [] mode = "RGB_8888" -> 4
    [] OTHER -> 1

\* PixelMatrix(buffer, mode) for a buffer of h rows and w columns of v
PixelMatrix(mode, w, h, v) ==
  [mode |-> mode, width |-> w, height |-> h,
   data |-> [r \in 1..h |-> [c \in 1..w |-> v]]]

is_coordinate_out_of_range(m, x, y) ==
  ~ (0 <= x /\ x < m.width /\ 0 <= y /\ y < m.height)

\* position (from 1) of index i on an array axis of length n: a negative
\* index counts from the end; 0 stands for the IndexError of the array
AxisIndex(n, i) ==
  IF 0 <= i /\ i < n THEN i + 1
  ELSE IF -n <= i /\ i < 0 THEN n + i + 1
  ELSE 0

\* self.__matrix[y, x]
ArrayGet(m, y, x) ==
  IF AxisIndex(m.height, y) = 0 \/ AxisIndex(m.width, x) = 0
    THEN Err("OutOfRange")
    ELSE Ok(m.data[AxisIndex(m.height, y)][AxisIndex(m.width, x)])

\* a plausible slip: only the upper limits are tested
get_pixel_upper_only(m, x, y) ==
  IF ~ (x < m.width /\ y < m.height)
    THEN Err("OutOfRange")
    ELSE ArrayGet(m, y, x)

get_pixel(m, x, y) ==
  IF is_coordinate_out_of_range(m, x, y)
    THEN Err("OutOfRange")
    ELSE ArrayGet(m, y, x)

\* colours: an int n is [kind |-> "int", v |-> <<n>>], a tuple or list t is
\* [kind |-> "tuple", v |-> t]
IntColor(n) == [kind |-> "int", v |-> <<n>>]
TupleColor(t) == [kind |-> "tuple", v |-> t]

ChannelMax(mode) == IF mode = "RGB565" THEN 65535 ELSE IF mode = "MONO" THEN 1 ELSE 255

\* a plausible slip: the upper limit of the range is not tested
validate_color_by_mode_lower_only(mode, color) ==
  IF Channels(mode) = 1
    THEN IF color.kind # "int" THEN "TypeMismatch"
         ELSE IF ~ (0 <= color.v[1]) THEN "RangeError"
         ELSE "ok"
    ELSE IF color.kind # "tuple" THEN "TypeMismatch"
         ELSE IF Len(color.v) # Channels(mode) THEN "RangeError"
         ELSE IF \E i \in 1..Len(color.v) : ~ (0 <= color.v[i]) THEN "RangeError"
         ELSE "ok"

validate_color_by_mode(mode, color) ==
  IF Channels(mode) = 1
    THEN IF color.kind # "int" THEN "TypeMismatch"
         ELSE IF ~ (0 <= color.v[1] /\ color.v[1] <= ChannelMax(mode))
           THEN "RangeError"
         ELSE "ok"
    ELSE IF color.kind # "tuple" THEN "TypeMismatch"
         ELSE IF Len(color.v) # Channels(mode) THEN "RangeError"
         ELSE IF \E i \in 1..Len(color.v) : ~ (0 <= color.v[i] /\ color.v[i] <= 255)
           THEN "RangeError"
         ELSE "ok"

\* the element set_pixel stores for a validated colour
Stored(color) == color.v

\* a plausible slip: the element is stored before the colour is validated
set_pixel_store_first(m, x, y, color) ==
  IF is_coordinate_out_of_range(m, x, y) THEN [m |-> m, err |-> "OutOfRange"]
  ELSE [m |-> [m EXCEPT !.data[y + 1][x + 1] = Stored(color)],
        err |-> IF validate_color_by_mode(m.mode, color) # "ok"
                  THEN validate_color_by_mode(m.mode, color) ELSE ""]

\* set_pixel: the matrix afterwards and the failure, if any
set_pixel(m, x, y, color) ==
  IF is_coordinate_out_of_range(m, x, y) THEN [m |-> m, err |-> "OutOfRange"]
  ELSE IF validate_color_by_mode(m.mode, color) # "ok"
    THEN [m |-> m, err |-> validate_color_by_mode(m.mode, color)]
  ELSE [m |-> [m EXCEPT !.data[y + 1][x + 1] = Stored(color)], err |-> ""]

(***************************************************************************)
(* ScreenConfig (data_structures.py).                                      *)
(***************************************************************************)
\* the constructor; metadata is the dict as its set of <<key, value>> items
ScreenConfig(w, h, modes, dir, bit, row_offset, col_offset, metadata) ==
  [width |-> w, height |-> h, supported_modes |-> modes,
   scan_direction |-> dir, bit_order |-> bit,
   row_offset |-> row_offset, col_offset |-> col_offset,
   metadata |-> metadata]

supports_mode(c, mode) ==
  \E i \in 1..Len(c.supported_modes) : c.supported_modes[i] = mode

is_compatible_with(c, m) ==
  m.width = c.width /\ m.height = c.height /\ supports_mode(c, m.mode)

\* Python values handed to the setters: an int, a float, a str, or a member
\* of an enumeration class (type is the class, name the member)
PyInt(n) == [type |-> "int", n |-> n, name |-> ""]
PyFloat(n) == [type |-> "float", n |-> n, name |-> ""]
PyStr(name) == [type |-> "str", n |-> 0, name |-> name]
PyMember(cls, name) == [type |-> cls, n |-> 0, name |-> name]

isinstance(value, cls) == value.type = cls

\* the outcome of a setter or method of ScreenConfig: the config after the
\* call and the failure raised ("" when none)
Kept(c, err) == [c |-> c, err |-> err]

\* @width.setter
set_width(c, value) ==
  IF ~ isinstance(value, "int") \/ value.n <= 0
    THEN Kept(c, "InvalidDimension")
    ELSE Kept([c EXCEPT !.width = value.n], "")

\* @height.setter
set_height(c, value) ==
  IF ~ isinstance(value, "int") \/ value.n <= 0
    THEN Kept(c, "InvalidDimension")
    ELSE Kept([c EXCEPT !.height = value.n], "")

\* @scan_direction.setter
set_scan_direction(c, value) ==
  IF ~ isinstance(value, "ScanDirection")
    THEN Kept(c, "NotAMember")
    ELSE Kept([c EXCEPT !.scan_direction = value.name], "")

\* @bit_order.setter
set_bit_order(c, value) ==
  IF ~ isinstance(value, "BitOrder")
    THEN Kept(c, "NotAMember")
    ELSE Kept([c EXCEPT !.bit_order = value.name], "")

\* @row_offset.setter
set_row_offset(c, value) ==
  IF ~ isinstance(value, "int") \/ value.n < 0
    THEN Kept(c, "InvalidOffset")
    ELSE Kept([c EXCEPT !.row_offset = value.n], "")

\* @col_offset.setter
set_col_offset(c, value) ==
  IF ~ isinstance(value, "int") \/ value.n < 0
    THEN Kept(c, "InvalidOffset")
    ELSE Kept([c EXCEPT !.col_offset = value.n], "")

add_supported_mode(c, mode) ==
  IF ~ isinstance(mode, "ColorMode")
    THEN Kept(c, "NotAMember")
  ELSE IF ~ supports_mode(c, mode.name)
    THEN Kept([c EXCEPT !.supported_modes = Append(@, mode.name)], "")
  ELSE Kept(c, "")

\* list.remove(x): the list without the first element equal to x
ListRemove(list, x) ==
  LET i == CHOOSE k \in 1..Len(list) :
             list[k] = x /\ \A j \in 1..(k - 1) : list[j] # x
  IN [j \in 1..(Len(list) - 1) |-> IF j < i THEN list[j] ELSE list[j + 1]]

\* a plausible slip: the last mode can be removed
remove_supported_mode_unguarded(c, mode) ==
  IF isinstance(mode, "ColorMode") /\ supports_mode(c, mode.name)
    THEN Kept([c EXCEPT !.supported_modes = ListRemove(@, mode.name)], "")
    ELSE Kept(c, "")

\* a value that is no ColorMode is equal to no element of the list
remove_supported_mode(c, mode) ==
  IF Len(c.supported_modes) <= 1
    THEN Kept(c, "LastMode")
  ELSE IF isinstance(mode, "ColorMode") /\ supports_mode(c, mode.name)
    THEN Kept([c EXCEPT !.supported_modes = ListRemove(@, mode.name)], "")
  ELSE Kept(c, "")

\* the members of the enumerations in the order of their definition: auto()
\* gives the n-th member the value n
ColorModeMembers == <<"MONO", "GRAY_8", "RGB_888", "RGB_8888", "RGB565">>

ScanDirectionMembers ==
  <<"HORIZONTAL", "VERTICAL", "HORIZONTAL_REVERSED", "VERTICAL_REVERSED",
    "BY_PAGE", "BY_PAGE_REVERSED">>

BitOrderMembers == <<"MSB_FIRST", "LSB_FIRST">>

\* member.value
EnumValue(members, name) == CHOOSE i \in 1..Len(members) : members[i] = name

\* EnumClass(value): the member of that value, ValueError when there is none
EnumCall(members, value) ==
  IF value \in 1..Len(members) THEN Ok(members[value]) ELSE Err("NoSuchValue")

\* _validate_basic_params, on the values stored by the constructor
validate_basic_params(width, height, row_offset, col_offset) ==
  IF ~ isinstance(width, "int") \/ width.n <= 0 THEN "InvalidDimension"
  ELSE IF ~ isinstance(height, "int") \/ height.n <= 0 THEN "InvalidDimension"
  ELSE IF ~ isinstance(row_offset, "int") \/ row_offset.n < 0 THEN "InvalidOffset"
  ELSE IF ~ isinstance(col_offset, "int") \/ col_offset.n < 0 THEN "InvalidOffset"
  ELSE "ok"

\* _validate_supported_modes, on a list of member names
validate_supported_modes(modes) ==
  IF modes = <<>> THEN "NoModes"
  ELSE IF \E i \in 1..Len(modes) : modes[i] \notin ColorMode THEN "NotAMember"
  ELSE "ok"

\* a dict is a function from its keys; the ints of a config are Python values
\* in it. to_dict: the enumeration members as their values
to_dict(c) ==
  [width |-> PyInt(c.width),
   height |-> PyInt(c.height),
   supported_modes |->
     [i \in 1..Len(c.supported_modes) |->
        EnumValue(ColorModeMembers, c.supported_modes[i])],
   scan_direction |-> EnumValue(ScanDirectionMembers, c.scan_direction),
   bit_order |-> EnumValue(BitOrderMembers, c.bit_order),
   row_offset |-> PyInt(c.row_offset),
   col_offset |-> PyInt(c.col_offset),
   metadata |-> c.metadata]

\* data.get(key, default)
DictGet(data, key, default) == IF key \in DOMAIN data THEN data[key] ELSE default

\* cls(**arguments): the constructor with its two validations
FromArguments(width, height, modes, dir, bit, row_offset, col_offset, metadata) ==
  IF validate_basic_params(width, height, row_offset, col_offset) # "ok"
    THEN Err(validate_basic_params(width, height, row_offset, col_offset))
  ELSE IF validate_supported_modes(modes) # "ok"
    THEN Err(validate_supported_modes(modes))
  ELSE Ok(ScreenConfig(width.n, height.n, modes, dir, bit,
                       row_offset.n, col_offset.n, metadata))

\* a plausible slip: the metadata is not handed to the constructor
from_dict_without_metadata(data) ==
  LET values == DictGet(data, "supported_modes", <<>>)
      dir == EnumCall(ScanDirectionMembers,
                      DictGet(data, "scan_direction",
                              EnumValue(ScanDirectionMembers, "HORIZONTAL")))
      bit == EnumCall(BitOrderMembers,
                      DictGet(data, "bit_order",
                              EnumValue(BitOrderMembers, "MSB_FIRST")))
  IN IF {"width", "height", "supported_modes"} \ DOMAIN data # {}
       THEN Err("KeyError")
     ELSE IF \E i \in 1..Len(values) : ~ EnumCall(ColorModeMembers, values[i]).ok
       THEN Err("NoSuchValue")
     ELSE IF ~ dir.ok THEN Err(dir.err)
     ELSE IF ~ bit.ok THEN Err(bit.err)
     ELSE FromArguments(data["width"], data["height"],
                        [i \in 1..Len(values) |->
                           EnumCall(ColorModeMembers, values[i]).val],
                        dir.val, bit.val,
                        DictGet(data, "row_offset", PyInt(0)),
                        DictGet(data, "col_offset", PyInt(0)),
                        {})

\* from_dict: the arguments are evaluated in the order written, then the
\* constructor runs
from_dict(data) ==
  LET values == DictGet(data, "supported_modes", <<>>)
      dir == EnumCall(ScanDirectionMembers,
                      DictGet(data, "scan_direction",
                              EnumValue(ScanDirectionMembers, "HORIZONTAL")))
      bit == EnumCall(BitOrderMembers,
                      DictGet(data, "bit_order",
                              EnumValue(BitOrderMembers, "MSB_FIRST")))
  IN IF {"width", "height", "supported_modes"} \ DOMAIN data # {}
       THEN Err("KeyError")
     ELSE IF \E i \in 1..Len(values) : ~ EnumCall(ColorModeMembers, values[i]).ok
       THEN Err("NoSuchValue")
     ELSE IF ~ dir.ok THEN Err(dir.err)
     ELSE IF ~ bit.ok THEN Err(bit.err)
     ELSE FromArguments(data["width"], data["height"],
                        [i \in 1..Len(values) |->
                           EnumCall(ColorModeMembers, values[i]).val],
                        dir.val, bit.val,
                        DictGet(data, "row_offset", PyInt(0)),
                        DictGet(data, "col_offset", PyInt(0)),
                        DictGet(data, "metadata", {}))

(***************************************************************************)
(* Bit encodings (modulator.py).                                           *)
(***************************************************************************)
RECURSIVE Pow2(_)
Pow2(n) == IF n = 0 THEN 1 ELSE 2 * Pow2(n - 1)

\* a | b on naturals
RECURSIVE BitOr(_, _)
BitOr(a, b) ==
  IF a = 0 THEN b
  ELSE IF b = 0 THEN a
  ELSE (IF a % 2 = 1 \/ b % 2 = 1 THEN 1 ELSE 0) + 2 * BitOr(a \div 2, b \div 2)

\* a plausible slip: the mask starts at bit 0
break_decimal_low_bit_first(decimal) ==
  [j \in 1..8 |-> (decimal \div Pow2(j - 1)) % 2]

\* bits[i] = (decimal & (0x80 >> i)) >> (7 - i), i = 0..7
break_decimal_into_binary(decimal) ==
  [j \in 1..8 |-> (decimal \div Pow2(7 - (j - 1))) % 2]

\* byte_value = 0; for i in range(8): byte_value |= pixels[i] << shifts[i]
RECURSIVE OrShifted(_, _, _)
OrShifted(pixels, shifts, n) ==
  IF n = 0 THEN 0
  ELSE BitOr(OrShifted(pixels, shifts, n - 1), pixels[n] * Pow2(shifts[n]))

MSBFirst_encode_by_bits(pixels) ==
  IF Len(pixels) # 8 THEN Err("ArityError")
  ELSE Ok(OrShifted(pixels, RangeDown(8), 8))

\* a plausible slip: the shift of MSBFirstEncoding
LSBFirst_encode_by_bits_descending(pixels) ==
  IF Len(pixels) # 8 THEN Err("ArityError")
  ELSE Ok(OrShifted(pixels, RangeDown(8), 8))

LSBFirst_encode_by_bits(pixels) ==
  IF Len(pixels) # 8 THEN Err("ArityError")
  ELSE Ok(OrShifted(pixels, RangeUp(8), 8))

EncodingClasses == {"MSBFirstEncoding", "LSBFirstEncoding"}

encode_by_bits(enc, pixels) ==
  IF enc = "MSBFirstEncoding" THEN MSBFirst_encode_by_bits(pixels)
  ELSE LSBFirst_encode_by_bits(pixels)

encoding_by_decimal(enc, decimal) ==
  encode_by_bits(enc, break_decimal_into_binary(decimal)).val

(***************************************************************************)
(* Strategy lookup (modulator.py).                                         *)
(***************************************************************************)
\* the dict literal of find_scan_strategy: <<member name, class>>, in order
strategy_map ==
  << <<"HORIZONTAL", "HorizontalScanStrategy">>,
     <<"HORIZONTAL_REVERSED", "HorizontalReversedScanStrategy">>,
     <<"VERTICAL", "VerticalScanStrategy">>,
     <<"VERTICAL_REVERSED", "VerticalReversedScanStrategy">>,
     <<"VERTICAL_BY_PAGE", "VerticalScanStrategyByPage">>,
     <<"VERTICAL_REVERSED_BY_PAGE", "VerticalReversedScanStrategyByPage">> >>

\* building the dict reads every key ScanDirection.<name>; a name that is
\* no member raises AttributeError before any lookup
LookupScan(table, dir) ==
  IF \E i \in 1..Len(table) : table[i][1] \notin ScanDirection
    THEN Err("AttributeError")
  ELSE IF \E i \in 1..Len(table) : table[i][1] = dir
    THEN Ok(table[CHOOSE i \in 1..Len(table) : table[i][1] = dir][2])
  ELSE Err("UnmappedStrategy")

find_scan_strategy(c) == LookupScan(strategy_map, c.scan_direction)

find_bit_encoding_strategy(c) ==
  IF c.bit_order = "MSB_FIRST" THEN Ok("MSBFirstEncoding")
  ELSE IF c.bit_order = "LSB_FIRST" THEN Ok("LSBFirstEncoding")
  ELSE Err("UnmappedStrategy")

(***************************************************************************)
(* Modulate strategies (modulator.py).  Each is constructed with the       *)
(* matrix, a scan strategy class and an encoding class; the scan strategy  *)
(* is built from the matrix's own width and height.                        *)
(***************************************************************************)
\* bytes(values): every value must lie in range(0, 256)
Bytes(values) ==
  IF \E i \in 1..Len(values) : ~ (0 <= values[i] /\ values[i] <= 255)
    THEN Err("ByteRange")
    ELSE Ok(values)

Coordinates(m, scanCls) == get_pixel_order(scanCls, m.width, m.height)

\* the pixel at the k-th coordinate of the traversal
PixelAt(m, coords, k) == get_pixel(m, coords[k][1], coords[k][2]).val

\* the comprehension binds only the name bytes and reads x and y, which are
\* bound nowhere: the first coordinate raises NameError; with no coordinate
\* the empty list reaches encode_by_bits
BinaryModulate(m, scanCls, enc) ==
  IF RaisesAtStart(scanCls, m.height) THEN Err("InvalidGeometry")
  ELSE IF Coordinates(m, scanCls) = <<>> THEN encode_by_bits(enc, <<>>)
  ELSE Err("NameError")

GreyModulate(m, scanCls, enc) ==
  IF RaisesAtStart(scanCls, m.height) THEN Err("InvalidGeometry")
  ELSE LET coords == Coordinates(m, scanCls)
       IN IF enc = "MSBFirstEncoding"
            THEN Bytes([k \in 1..Len(coords) |-> PixelAt(m, coords, k)[1]])
            ELSE Bytes([k \in 1..Len(coords) |->
                          encoding_by_decimal(enc, PixelAt(m, coords, k)[1])])

RgbModulate(m, scanCls, enc) ==
  IF RaisesAtStart(scanCls, m.height) THEN Err("InvalidGeometry")
  ELSE LET coords == Coordinates(m, scanCls)
           raw == Flatten([k \in 1..Len(coords) |-> PixelAt(m, coords, k)])
       IN IF enc = "MSBFirstEncoding"
            THEN Bytes(raw)
            ELSE Bytes([n \in 1..Len(raw) |-> encoding_by_decimal(enc, raw[n])])

\* MODULATE_STRATEGY_MAPPING[matrix.mode](matrix, scan, enc).modulate()
StrategyModulate(m, scanCls, enc) ==
  CASE m.mode = "MONO" -> BinaryModulate(m, scanCls, enc)
    [] m.mode = "GRAY_8" -> GreyModulate(m, scanCls, enc)
    [] OTHER -> RgbModulate(m, scanCls, enc)

(***************************************************************************)
(* Modulator (modulator.py).                                               *)
(***************************************************************************)
\* a plausible slip: the offsets are taken off the panel's size
validate_input_inside_offsets(m, c) ==
  IF <<m.width, m.height>> # <<c.width - c.col_offset, c.height - c.row_offset>>
    THEN "ResolutionMismatch" ELSE "ok"

\* a plausible slip: only the widths are compared
validate_input_width_only(m, c) ==
  IF m.width # c.width THEN "ResolutionMismatch" ELSE "ok"

validate_input(m, c) ==
  IF <<m.width, m.height>> # <<c.width, c.height>>
    THEN "ResolutionMismatch" ELSE "ok"

Modulator_modulate(m, c) ==
  IF validate_input(m, c) # "ok" THEN Err(validate_input(m, c))
  ELSE IF ~ find_scan_strategy(c).ok THEN Err(find_scan_strategy(c).err)
  ELSE IF ~ find_bit_encoding_strategy(c).ok
    THEN Err(find_bit_encoding_strategy(c).err)
  ELSE StrategyModulate(m, find_scan_strategy(c).val,
                        find_bit_encoding_strategy(c).val)

(***************************************************************************)
(* SpecGen: a matrix and a config as constructed, and Modulator.modulate.  *)
(* res is the outcome of the latest call: op, ok, err and out, the bytes   *)
(* returned (<<>> when the call failed).                                   *)
(***************************************************************************)
\* elements the buffers are drawn from
PixelValues(mode) ==
  CASE mode = "MONO" -> {<<0>>, <<1>>}
    [] mode = "GRAY_8" -> {<<0>>, <<178>>}
    [] mode = "RGB565" -> {<<178>>, <<65535>>}
    [] mode = "RGB_888" -> {<<255, 0, 0>>, <<178, 1, 77>>}
    [] mode = "RGB_8888" -> {<<255, 0, 0, 255>>, <<178, 1, 77, 128>>}

\* buffers of h rows and w columns: v everywhere, or v everywhere but for
\* one element v2 at row oy, column ox (ox = -1: nowhere)
Buffers(mode, w, h) ==
  {[r \in 1..h |-> [c \in 1..w |->
      IF c - 1 = ox /\ r - 1 = oy THEN v2 ELSE v]] :
     v \in PixelValues(mode), v2 \in PixelValues(mode),
     ox \in -1..(w - 1), oy \in 0..(h - 1)}

\* supported_modes lists the configs are constructed with
SupportedChoices ==
  {<<"MONO">>, <<"GRAY_8", "RGB565">>, <<"MONO", "RGB_888", "RGB_8888">>}

NoStrat == [cls |-> "HorizontalScanStrategy", width |-> 1, height |-> 1]

InitGen ==
  /\ \E mode \in ColorMode, w \in Widths, h \in Heights :
       \E data \in Buffers(mode, w, h) :
         mat = [mode |-> mode, width |-> w, height |-> h, data |-> data]
  /\ \E w \in Widths, h \in Heights, modes \in SupportedChoices,
        dir \in ScanDirection, bit \in BitOrder :
       cfg = ScreenConfig(w, h, modes, dir, bit, 0, 0, {})
  /\ res = NoRes
  /\ strat = NoStrat /\ gens = EmptyBag /\ heap = NoHeap

\* a plausible slip: the pixels are consumed as they are read
ModulateClearing ==
  /\ LET r == Modulator_modulate(mat, cfg)
     IN res' = [op |-> "modulate", ok |-> r.ok, err |-> r.err, out |-> r.val]
  /\ mat' = [mat EXCEPT !.data = [r \in 1..mat.height |-> [c \in 1..mat.width |->
                                   [ch \in 1..Channels(mat.mode) |-> 0]]]]
  /\ UNCHANGED <<cfg, strat, gens, heap>>

\* Modulator(cfg).modulate(mat)
Modulate ==
  /\ LET r == Modulator_modulate(mat, cfg)
     IN res' = [op |-> "modulate", ok |-> r.ok, err |-> r.err, out |-> r.val]
  /\ UNCHANGED <<mat, cfg, strat, gens, heap>>

NextGen == Modulate

SpecGen == InitGen /\ [][NextGen]_vars

(***************************************************************************)
(* SpecOff: as SpecGen, with configs constructed with calibration offsets  *)
(* and metadata, over buffers of one value.                                *)
(***************************************************************************)
\* row_offset and col_offset values the configs are constructed with
Offsets == {0, 1}

\* metadata dicts the configs are constructed with
MetadataChoices == {{}, {<<"controller", "SSD1306">>}}

InitOff ==
  /\ \E mode \in ColorMode, w \in Widths, h \in Heights :
       \E v \in PixelValues(mode) : mat = PixelMatrix(mode, w, h, v)
  /\ \E w \in Widths, h \in Heights, modes \in SupportedChoices,
        dir \in ScanDirection, bit \in BitOrder,
        ro \in Offsets, co \in Offsets, md \in MetadataChoices :
       cfg = ScreenConfig(w, h, modes, dir, bit, ro, co, md)
  /\ res = NoRes
  /\ strat = NoStrat /\ gens = EmptyBag /\ heap = NoHeap

NextOff == Modulate

SpecOff == InitOff /\ [][NextOff]_vars

(***************************************************************************)
(* PixelMatrix operations on whole matrices and regions                    *)
(* (data_structures.py).                                                   *)
(***************************************************************************)
Max(a, b) == IF a >= b THEN a ELSE b
Min(a, b) == IF a <= b THEN a ELSE b

\* a slice bound a on an axis of length n: counted from the end when
\* negative, then clipped to 0..n
SliceBound(n, a) == IF a < 0 THEN Max(n + a, 0) ELSE Min(a, n)

\* positions (from 1) selected by the slice a:b on an axis of length n
SliceIndices(n, a, b) ==
  [k \in 1..Max(SliceBound(n, b) - SliceBound(n, a), 0) |-> SliceBound(n, a) + k]

\* fill: the matrix afterwards and the failure, if any
fill(m, color) ==
  IF validate_color_by_mode(m.mode, color) # "ok"
    THEN [m |-> m, err |-> validate_color_by_mode(m.mode, color)]
    ELSE [m |-> [m EXCEPT !.data = [r \in 1..m.height |->
                                     [c \in 1..m.width |-> Stored(color)]]],
          err |-> ""]

\* get_region: the four corners (x1|x2, y1|y2) are validated as pixel
\* coordinates, then the slice [y1:y2, x1:x2] is copied into a new matrix
get_region(m, x1, y1, x2, y2) ==
  IF \E x \in {x1, x2}, y \in {y1, y2} : is_coordinate_out_of_range(m, x, y)
    THEN Err("OutOfRange")
    ELSE LET rows == SliceIndices(m.height, y1, y2)
             cols == SliceIndices(m.width, x1, x2)
         IN Ok([mode |-> m.mode, width |-> Len(cols), height |-> Len(rows),
                data |-> [j \in 1..Len(rows) |->
                           [i \in 1..Len(cols) |-> m.data[rows[j]][cols[i]]]]])

\* array[rows, cols] = value: an axis of the value is stored as it is when
\* its length is that of the target, repeated when its length is 1, and
\* the assignment raises ValueError otherwise
Broadcasts(s, t) == s = t \/ s = 1

\* set_region: the matrix afterwards and the failure, if any; only the
\* bottom-right corner is validated, the slices do the rest
set_region(m, x, y, sub) ==
  IF sub.mode # m.mode THEN [m |-> m, err |-> "ModeMismatch"]
  ELSE IF is_coordinate_out_of_range(m, x + sub.width - 1, y + sub.height - 1)
    THEN [m |-> m, err |-> "OutOfRange"]
  ELSE LET rows == SliceIndices(m.height, y, y + sub.height)
           cols == SliceIndices(m.width, x, x + sub.width)
           Pos(seq, v) == CHOOSE k \in 1..Len(seq) : seq[k] = v
       IN IF ~ (Broadcasts(sub.height, Len(rows)) /\ Broadcasts(sub.width, Len(cols)))
            THEN [m |-> m, err |-> "BroadcastError"]
            ELSE [m |-> [m EXCEPT !.data = [r \in 1..m.height |-> [c \in 1..m.width |->
                          IF (\E j \in 1..Len(rows) : rows[j] = r)
                               /\ (\E i \in 1..Len(cols) : cols[i] = c)
                            THEN sub.data[IF sub.height = 1 THEN 1 ELSE Pos(rows, r)]
                                         [IF sub.width = 1 THEN 1 ELSE Pos(cols, c)]
                            ELSE m.data[r][c]]]],
                  err |-> ""]

\* copy: PixelMatrix(self.matrix, self.mode), on a copy of the array
copy(m) == m

\* a >> n and (a << n) in an unsigned type of the given width
ShiftRight(a, n) == a \div Pow2(n)
ShiftLeft(a, n, width) == IF n >= width THEN 0 ELSE (a * Pow2(n)) % Pow2(width)

\* ((v >> 11) & 0x1F) << 3, ((v >> 5) & 0x3F) << 2, (v & 0x1F) << 3 on
\* uint16, stored into uint8
Rgb565ToRgb(v) ==
  << ShiftLeft(ShiftRight(v, 11) % 32, 3, 16) % 256,
     ShiftLeft(ShiftRight(v, 5) % 64, 2, 16) % 256,
     ShiftLeft(v % 32, 3, 16) % 256 >>

\* r, g, b = (R >> 3) & 0x1F, (G >> 2) & 0x3F, (B >> 3) & 0x1F and
\* (r << 11) | (g << 5) | b, all on uint8 arrays; astype(uint16) comes last
RgbToRgb565(R, G, B) ==
  BitOr(BitOr(ShiftLeft(ShiftRight(R, 3) % 32, 11, 8),
              ShiftLeft(ShiftRight(G, 2) % 64, 5, 8)),
        ShiftRight(B, 3) % 32)

\* np.mean over the three channels, astype(uint8)
MeanGray(R, G, B) == (R + G + B) \div 3

\* 0.299 R + 0.587 G + 0.114 B, astype(uint8): the truncated sum (a sum
\* whose exact value is a whole number can come out one lower in floating
\* point; no value of PixelValues is such a sum)
Luminance(R, G, B) == (299 * R + 587 * G + 114 * B) \div 1000

\* the element a pixel p of mode `from` becomes in mode `to` (from # to)
ConvertPixel(from, to, p) ==
  LET rgb == CASE from = "MONO" -> <<p[1] * 255, p[1] * 255, p[1] * 255>>
               [] from = "GRAY_8" -> <<p[1], p[1], p[1]>>
               [] from = "RGB565" -> Rgb565ToRgb(p[1])
               [] OTHER -> <<p[1], p[2], p[3]>>
      over128(v) == IF v > 128 THEN 1 ELSE 0
  IN CASE to = "MONO" ->
            IF from = "GRAY_8" THEN <<over128(p[1])>>
            ELSE <<over128(MeanGray(rgb[1], rgb[2], rgb[3]))>>
       [] to = "GRAY_8" ->
            IF from = "MONO" THEN <<p[1] * 255>>
            ELSE <<Luminance(rgb[1], rgb[2], rgb[3])>>
       [] to = "RGB_888" -> rgb
       [] to = "RGB_8888" -> <<rgb[1], rgb[2], rgb[3], 255>>
       [] to = "RGB565" -> <<RgbToRgb565(rgb[1], rgb[2], rgb[3])>>

\* convert_mode: a new matrix in the target mode
convert_mode(m, mode) ==
  IF m.mode = mode THEN copy(m)
  ELSE [mode |-> mode, width |-> m.width, height |-> m.height,
        data |-> [r \in 1..m.height |-> [c \in 1..m.width |->
                   ConvertPixel(m.mode, mode, m.data[r][c])]]]

\* from_image(image, ColorMode.RGB565) on the RGB pixels rgb_data of the
\* image, h rows of w triples
from_image_rgb565(rgb_data, w, h) ==
  [mode |-> "RGB565", width |-> w, height |-> h,
   data |-> [r \in 1..h |-> [c \in 1..w |->
              <<RgbToRgb565(rgb_data[r][c][1], rgb_data[r][c][2],
                            rgb_data[r][c][3])>>]]]

(***************************************************************************)
(* SpecMat: one PixelMatrix as constructed and one call made on it.  res   *)
(* is the outcome of the call: op, args, ok, err and out, the value        *)
(* returned (<<>> when there is none).                                     *)
(***************************************************************************)
MatHeights == 1..MaxH

\* colours passed to set_pixel and fill: the values of the mode, values
\* out of its range, a wrong arity and a wrong type
Colors(mode) ==
  IF Channels(mode) = 1
    THEN {IntColor(v[1]) : v \in PixelValues(mode)}
           \cup {IntColor(ChannelMax(mode) + 1), IntColor(-1),
                 TupleColor(<<0, 0, 0>>)}
    ELSE {TupleColor(v) : v \in PixelValues(mode)}
           \cup {TupleColor([ch \in 1..Channels(mode) |-> IF ch = 2 THEN 256 ELSE 0]),
                 TupleColor(<<0, 0>>), IntColor(0)}

\* a mode other than mode
OtherMode(mode) == IF mode = "GRAY_8" THEN "RGB565" ELSE "GRAY_8"

InitMat ==
  /\ \E mode \in ColorMode, w \in Widths, h \in MatHeights :
       \E data \in Buffers(mode, w, h) :
         mat = [mode |-> mode, width |-> w, height |-> h, data |-> data]
  /\ res = NoRes
  /\ cfg = NoCfg /\ strat = NoStrat /\ gens = EmptyBag /\ heap = NoHeap

Called(op, args, ok, err, out) ==
  [op |-> op, args |-> args, ok |-> ok, err |-> err, out |-> out]

GetPixel ==
  /\ res = NoRes
  /\ \E x \in -1..mat.width, y \in -1..mat.height :
       LET r == get_pixel(mat, x, y)
       IN res' = Called("get_pixel", <<x, y>>, r.ok, r.err, r.val)
  /\ UNCHANGED <<mat, cfg, strat, gens, heap>>

SetPixel ==
  /\ res = NoRes
  /\ \E x \in -1..mat.width, y \in -1..mat.height, color \in Colors(mat.mode) :
       LET r == set_pixel(mat, x, y, color)
       IN /\ mat' = r.m
          /\ res' = Called("set_pixel", <<x, y, color>>, r.err = "", r.err, <<>>)
  /\ UNCHANGED <<cfg, strat, gens, heap>>

Fill ==
  /\ res = NoRes
  /\ \E color \in Colors(mat.mode) :
       LET r == fill(mat, color)
       IN /\ mat' = r.m
          /\ res' = Called("fill", <<color>>, r.err = "", r.err, <<>>)
  /\ UNCHANGED <<cfg, strat, gens, heap>>

GetRegion ==
  /\ res = NoRes
  /\ \E x1 \in -1..mat.width, y1 \in -1..mat.height,
        x2 \in 0..(mat.width + 1), y2 \in 0..(mat.height + 1) :
       LET r == get_region(mat, x1, y1, x2, y2)
       IN res' = Called("get_region", <<x1, y1, x2, y2>>, r.ok, r.err, r.val)
  /\ UNCHANGED <<mat, cfg, strat, gens, heap>>

SetRegion ==
  /\ res = NoRes
  /\ \E x \in -1..mat.width, y \in -1..mat.height,
        mode \in {mat.mode, OtherMode(mat.mode)}, w \in Widths, h \in MatHeights :
       \E v \in PixelValues(mode) :
         LET sub == PixelMatrix(mode, w, h, v)
             r == set_region(mat, x, y, sub)
         IN /\ mat' = r.m
            /\ res' = Called("set_region", <<x, y, sub>>, r.err = "", r.err, <<>>)
  /\ UNCHANGED <<cfg, strat, gens, heap>>

ConvertMode ==
  /\ res = NoRes
  /\ \E mode \in ColorMode :
       res' = Called("convert_mode", <<mode>>, TRUE, "", convert_mode(mat, mode))
  /\ UNCHANGED <<mat, cfg, strat, gens, heap>>

\* PixelMatrix.from_image(image, ColorMode.RGB565), the image having the
\* size and, when its mode is RGB_888, the pixels of mat
FromImage ==
  /\ res = NoRes
  /\ mat.mode = "RGB_888"
  /\ res' = Called("from_image", <<mat.data>>, TRUE, "",
                   from_image_rgb565(mat.data, mat.width, mat.height))
  /\ UNCHANGED <<mat, cfg, strat, gens, heap>>

\* mat.convert_mode(mode).convert_mode(mat.mode), between RGB565 and RGB_888
ConvertTwice ==
  /\ res = NoRes
  /\ mat.mode \in {"RGB565", "RGB_888"}
  /\ LET mode == IF mat.mode = "RGB565" THEN "RGB_888" ELSE "RGB565"
     IN res' = Called("convert_twice", <<mode>>, TRUE, "",
                      convert_mode(convert_mode(mat, mode), mat.mode))
  /\ UNCHANGED <<mat, cfg, strat, gens, heap>>

NextMat ==
  \/ GetPixel
  \/ SetPixel
  \/ Fill
  \/ GetRegion
  \/ SetRegion
  \/ ConvertMode
  \/ FromImage
  \/ ConvertTwice

SpecMat == InitMat /\ [][NextMat]_vars

(***************************************************************************)
(* SpecWrites: one PixelMatrix under any sequence of set_pixel, fill and   *)
(* set_region calls.  res names the latest call and its failure, if any.   *)
(***************************************************************************)
\* heights of the matrices written to: one row, and more than one
WriteHeights == {1, 2}

\* sub-matrices passed to set_region: of the mode, of one value and of one
\* or two rows and columns, and one of another mode
SubMatrices(mode) ==
  {PixelMatrix(mode, w, h, v) : w \in {1, 2}, h \in {1, 2}, v \in PixelValues(mode)}
    \cup {PixelMatrix(OtherMode(mode), 1, 1, v) : v \in PixelValues(OtherMode(mode))}

InitWrites ==
  /\ \E mode \in ColorMode, w \in Widths, h \in WriteHeights :
       \E v \in PixelValues(mode) : mat = PixelMatrix(mode, w, h, v)
  /\ res = NoRes
  /\ cfg = NoCfg /\ strat = NoStrat /\ gens = EmptyBag /\ heap = NoHeap

WriteSetPixel ==
  /\ \E x \in -1..mat.width, y \in -1..mat.height, color \in Colors(mat.mode) :
       LET r == set_pixel(mat, x, y, color)
       IN /\ mat' = r.m
          /\ res' = Called("set_pixel", <<>>, r.err = "", r.err, <<>>)
  /\ UNCHANGED <<cfg, strat, gens, heap>>

WriteFill ==
  /\ \E color \in Colors(mat.mode) :
       LET r == fill(mat, color)
       IN /\ mat' = r.m
          /\ res' = Called("fill", <<>>, r.err = "", r.err, <<>>)
  /\ UNCHANGED <<cfg, strat, gens, heap>>

WriteSetRegion ==
  /\ \E x \in -1..mat.width, y \in -1..mat.height, sub \in SubMatrices(mat.mode) :
       LET r == set_region(mat, x, y, sub)
       IN /\ mat' = r.m
          /\ res' = Called("set_region", <<>>, r.err = "", r.err, <<>>)
  /\ UNCHANGED <<cfg, strat, gens, heap>>

NextWrites ==
  \/ WriteSetPixel
  \/ WriteFill
  \/ WriteSetRegion

SpecWrites == InitWrites /\ [][NextWrites]_vars

(***************************************************************************)
(* SpecCfg: one ScreenConfig, constructed with the defaults of its         *)
(* optional parameters, under any sequence of its setters and of           *)
(* add_supported_mode and remove_supported_mode, and the Modulator that    *)
(* was constructed with it: modulate reads cfg as it is when called.       *)
(***************************************************************************)
\* the modes added and removed
ModePool == {"MONO", "GRAY_8"}

\* values handed to the setters: accepted ones, ints outside the range and
\* values of another type
DimensionValues(sizes) ==
  {PyInt(n) : n \in {-1, 0} \cup sizes} \cup {PyFloat(1)}

OffsetValues == {PyInt(n) : n \in {-1} \cup Offsets} \cup {PyFloat(0)}

ScanDirectionValues ==
  {PyMember("ScanDirection", d) : d \in ScanDirection}
    \cup {PyStr("VERTICAL"), PyMember("BitOrder", "LSB_FIRST")}

BitOrderValues ==
  {PyMember("BitOrder", b) : b \in BitOrder} \cup {PyStr("LSB_FIRST")}

ModeValues == {PyMember("ColorMode", m) : m \in ModePool} \cup {PyStr("MONO")}

InitCfg ==
  /\ \E w \in Widths, h \in MatHeights, modes \in {<<"MONO">>, <<"MONO", "GRAY_8">>} :
       cfg = ScreenConfig(w, h, modes, "HORIZONTAL", "MSB_FIRST", 0, 0, {})
  /\ mat = [mode |-> "MONO", width |-> 2, height |-> 2,
            data |-> << << <<1>>, <<0>> >>, << <<0>>, <<0>> >> >>]
  /\ res = NoRes
  /\ strat = NoStrat /\ gens = EmptyBag /\ heap = NoHeap

\* each call stores the config it leaves and, in res, how it ended
SetWidth ==
  /\ \E value \in DimensionValues(Widths) :
       LET r == set_width(cfg, value)
       IN /\ cfg' = r.c
          /\ res' = Called("width", <<>>, r.err = "", r.err, <<>>)
  /\ UNCHANGED <<mat, strat, gens, heap>>

SetHeight ==
  /\ \E value \in DimensionValues(MatHeights) :
       LET r == set_height(cfg, value)
       IN /\ cfg' = r.c
          /\ res' = Called("height", <<>>, r.err = "", r.err, <<>>)
  /\ UNCHANGED <<mat, strat, gens, heap>>

SetScanDirection ==
  /\ \E value \in ScanDirectionValues :
       LET r == set_scan_direction(cfg, value)
       IN /\ cfg' = r.c
          /\ res' = Called("scan_direction", <<>>, r.err = "", r.err, <<>>)
  /\ UNCHANGED <<mat, strat, gens, heap>>

SetBitOrder ==
  /\ \E value \in BitOrderValues :
       LET r == set_bit_order(cfg, value)
       IN /\ cfg' = r.c
          /\ res' = Called("bit_order", <<>>, r.err = "", r.err, <<>>)
  /\ UNCHANGED <<mat, strat, gens, heap>>

SetRowOffset ==
  /\ \E value \in OffsetValues :
       LET r == set_row_offset(cfg, value)
       IN /\ cfg' = r.c
          /\ res' = Called("row_offset", <<>>, r.err = "", r.err, <<>>)
  /\ UNCHANGED <<mat, strat, gens, heap>>

SetColOffset ==
  /\ \E value \in OffsetValues :
       LET r == set_col_offset(cfg, value)
       IN /\ cfg' = r.c
          /\ res' = Called("col_offset", <<>>, r.err = "", r.err, <<>>)
  /\ UNCHANGED <<mat, strat, gens, heap>>

AddSupportedMode ==
  /\ \E mode \in ModeValues :
       LET r == add_supported_mode(cfg, mode)
       IN /\ cfg' = r.c
          /\ res' = Called("add_supported_mode", <<>>, r.err = "", r.err, <<>>)
  /\ UNCHANGED <<mat, strat, gens, heap>>

RemoveSupportedMode ==
  /\ \E mode \in ModeValues :
       LET r == remove_supported_mode(cfg, mode)
       IN /\ cfg' = r.c
          /\ res' = Called("remove_supported_mode", <<>>, r.err = "", r.err, <<>>)
  /\ UNCHANGED <<mat, strat, gens, heap>>

NextCfg ==
  \/ SetWidth
  \/ SetHeight
  \/ SetScanDirection
  \/ SetBitOrder
  \/ SetRowOffset
  \/ SetColOffset
  \/ AddSupportedMode
  \/ RemoveSupportedMode
  \/ Modulate

SpecCfg == InitCfg /\ [][NextCfg]_vars

(***************************************************************************)
(* SpecDict: one ScreenConfig and the dicts loaded with from_dict: the     *)
(* dict to_dict returned, or that dict with one entry replaced or removed. *)
(* res.args is <<data>>, res.out the config from_dict returned.            *)
(***************************************************************************)
InitDict ==
  /\ \E w \in Widths, h \in MatHeights, modes \in SupportedChoices,
        dir \in ScanDirection, bit \in BitOrder,
        ro \in Offsets, co \in Offsets, md \in MetadataChoices :
       cfg = ScreenConfig(w, h, modes, dir, bit, ro, co, md)
  /\ mat = NoMat /\ res = NoRes
  /\ strat = NoStrat /\ gens = EmptyBag /\ heap = NoHeap

\* the dict without the entry of key
Without(data, key) == [k \in DOMAIN data \ {key} |-> data[k]]

\* the dicts a stored dict may have become: an int out of range or of another
\* type, no mode or no mode's value, no member's value, a missing entry
Damaged(data) ==
  {[data EXCEPT ![key] = value] :
     key \in {"width", "height"}, value \in {PyInt(0), PyInt(-1), PyFloat(1)}}
  \cup {[data EXCEPT ![key] = value] :
          key \in {"row_offset", "col_offset"}, value \in {PyInt(-1), PyFloat(0)}}
  \cup {[data EXCEPT !.supported_modes = modes] : modes \in {<<>>, <<1, 6>>}}
  \cup {[data EXCEPT !.scan_direction = 0], [data EXCEPT !.bit_order = 3]}
  \cup {Without(data, key) : key \in DOMAIN data}

ToDict ==
  /\ res = NoRes
  /\ res' = Called("to_dict", <<>>, TRUE, "", to_dict(cfg))
  /\ UNCHANGED <<mat, cfg, strat, gens, heap>>

\* the dict returned is loaded as it is
FromDict ==
  /\ res.op = "to_dict"
  /\ LET r == from_dict(res.out)
     IN res' = Called("from_dict", <<res.out>>, r.ok, r.err, r.val)
  /\ UNCHANGED <<mat, cfg, strat, gens, heap>>

\* the dict returned is loaded after one entry was replaced or removed
FromDamagedDict ==
  /\ res.op = "to_dict"
  /\ \E data \in Damaged(res.out) :
       LET r == from_dict(data)
       IN res' = Called("from_dict", <<data>>, r.ok, r.err, r.val)
  /\ UNCHANGED <<mat, cfg, strat, gens, heap>>

NextDict ==
  \/ ToDict
  \/ FromDict
  \/ FromDamagedDict

SpecDict == InitDict /\ [][NextDict]_vars

(***************************************************************************)
(* SpecBits: the bit encodings called directly, one call per behaviour.    *)
(* res.args holds the arguments, res.out the values returned.              *)
(***************************************************************************)
\* every list of 8 bits
BitLists == [1..8 -> {0, 1}]

\* lists no coder is documented to take: of 7 and of 9 elements, and of 8
\* elements one of which is 2 or 3
OtherLists ==
  {[i \in 1..n |-> b] : n \in {7, 9}, b \in {0, 1}}
    \cup {[i \in 1..8 |-> IF i = k THEN v ELSE b] :
            k \in 1..8, v \in {2, 3}, b \in {0, 1}}
    \cup {[i \in 1..n |-> 2] : n \in {7, 9}}

InitBits ==
  /\ res = NoRes
  /\ mat = NoMat /\ cfg = NoCfg
  /\ strat = NoStrat /\ gens = EmptyBag /\ heap = NoHeap

EncodingByDecimal ==
  /\ res = NoRes
  /\ \E enc \in EncodingClasses, decimal \in 0..255 :
       res' = Called("encoding_by_decimal", <<enc, decimal>>, TRUE, "",
                     <<encoding_by_decimal(enc, decimal)>>)
  /\ UNCHANGED <<mat, cfg, strat, gens, heap>>

EncodeByBits ==
  /\ res = NoRes
  /\ \E enc \in EncodingClasses, pixels \in BitLists \cup OtherLists :
       LET r == encode_by_bits(enc, pixels)
       IN res' = Called("encode_by_bits", <<enc, pixels>>, r.ok, r.err,
                        IF r.ok THEN <<r.val>> ELSE <<>>)
  /\ UNCHANGED <<mat, cfg, strat, gens, heap>>

\* one list is given to a coder of each class
EncodeByBoth ==
  /\ res = NoRes
  /\ \E pixels \in BitLists :
       res' = Called("encode_by_both", <<pixels>>, TRUE, "",
                     <<MSBFirst_encode_by_bits(pixels).val,
                       LSBFirst_encode_by_bits(pixels).val>>)
  /\ UNCHANGED <<mat, cfg, strat, gens, heap>>

NextBits ==
  \/ EncodingByDecimal
  \/ EncodeByBits
  \/ EncodeByBoth

SpecBits == InitBits /\ [][NextBits]_vars

(***************************************************************************)
(* SpecHeap: arrays and the objects that refer to them.                    *)
(* heap.arrays is the sequence of the arrays allocated so far, each with   *)
(* its element type (as the mode it fits), its shape and its elements; a   *)
(* reference to an array is its position.  heap.mats is the sequence of    *)
(* the PixelMatrix objects, each with its mode, its size and buf, the      *)
(* reference it stores in __matrix.  heap.held is the set of references    *)
(* the caller holds.  Matrix 1 is constructed by the caller from a buffer  *)
(* it keeps, and a Frame is constructed on matrix 1.  res names the latest *)
(* call and, for set_pixel, the matrix it was made on.                     *)
(***************************************************************************)
\* the matrix i as a value: its mode and size, and the elements of its array
View(h, i) ==
  [mode |-> h.mats[i].mode, width |-> h.mats[i].width,
   height |-> h.mats[i].height, data |-> h.arrays[h.mats[i].buf].data]

\* a new array holding arr; its reference is the new length of h.arrays
Alloc(h, arr) == [h EXCEPT !.arrays = Append(@, arr)]

\* PixelMatrix(array, mode): self.__matrix = matrix, the reference as given
Construct(h, ref) ==
  [h EXCEPT !.mats = Append(@, [mode |-> h.arrays[ref].mode,
                                width |-> h.arrays[ref].width,
                                height |-> h.arrays[ref].height,
                                buf |-> ref])]

\* a PixelMatrix constructed on a new array holding the value m
NewMatrix(h, m) == Construct(Alloc(h, m), Len(h.arrays) + 1)

\* to_numpy: return self.__matrix
to_numpy(h, i) == [heap |-> h, ref |-> h.mats[i].buf]

\* a plausible slip: the property returns the array itself
matrix_without_copy(h, i) == [heap |-> h, ref |-> h.mats[i].buf]

\* the property matrix: return self.__matrix.copy()
matrix(h, i) ==
  [heap |-> Alloc(h, h.arrays[h.mats[i].buf]), ref |-> Len(h.arrays) + 1]

\* copy: PixelMatrix(self.matrix, self.mode)
PixelMatrix_copy(h, i) == Construct(matrix(h, i).heap, matrix(h, i).ref)

\* convert_mode: self.copy() for the matrix's own mode, else a matrix on
\* the array the conversion builds
PixelMatrix_convert_mode(h, i, mode) ==
  IF h.mats[i].mode = mode THEN PixelMatrix_copy(h, i)
  ELSE NewMatrix(h, convert_mode(View(h, i), mode))

\* Frame.pixel_matrix and Frame.to_numpy, the Frame holding matrix 1
Frame_pixel_matrix(h) == matrix(h, 1)
Frame_to_numpy(h) == to_numpy(h, 1)

\* matrix 1 is constructed from a buffer of 2 rows and 2 columns, the
\* smallest a non-empty region can be taken from
InitHeap ==
  /\ \E mode \in ColorMode :
       \E v \in PixelValues(mode) :
         heap = [arrays |-> <<PixelMatrix(mode, 2, 2, v)>>,
                 mats |-> <<[mode |-> mode, width |-> 2, height |-> 2, buf |-> 1]>>,
                 held |-> {1}]
  /\ res = NoRes
  /\ mat = NoMat /\ cfg = NoCfg /\ strat = NoStrat /\ gens = EmptyBag

Matrices == 1..Len(heap.mats)

CanAllocate == Len(heap.arrays) < MaxArrays

\* the caller keeps the reference a call returned
Keep(r) == [r.heap EXCEPT !.held = @ \cup {r.ref}]

\* a = m.matrix
ReadMatrix ==
  /\ CanAllocate
  /\ \E i \in Matrices :
       /\ heap' = Keep(matrix(heap, i))
       /\ res' = Called("matrix", <<>>, TRUE, "", <<>>)
  /\ UNCHANGED <<mat, cfg, strat, gens>>

\* a = m.to_numpy()
ToNumpy ==
  /\ \E i \in Matrices :
       /\ heap' = Keep(to_numpy(heap, i))
       /\ res' = Called("to_numpy", <<>>, TRUE, "", <<>>)
  /\ UNCHANGED <<mat, cfg, strat, gens>>

\* a = frame.pixel_matrix
FramePixelMatrix ==
  /\ CanAllocate
  /\ heap' = Keep(Frame_pixel_matrix(heap))
  /\ res' = Called("Frame.pixel_matrix", <<>>, TRUE, "", <<>>)
  /\ UNCHANGED <<mat, cfg, strat, gens>>

\* a = frame.to_numpy()
FrameToNumpy ==
  /\ heap' = Keep(Frame_to_numpy(heap))
  /\ res' = Called("Frame.to_numpy", <<>>, TRUE, "", <<>>)
  /\ UNCHANGED <<mat, cfg, strat, gens>>

\* a[0, 0] = v on an array the caller holds
WriteArray ==
  /\ \E a \in heap.held :
       \E v \in PixelValues(heap.arrays[a].mode) :
         /\ heap' = [heap EXCEPT !.arrays[a].data[1][1] = v]
         /\ res' = Called("array_write", <<>>, TRUE, "", <<>>)
  /\ UNCHANGED <<mat, cfg, strat, gens>>

CopyMatrix ==
  /\ CanAllocate
  /\ \E i \in Matrices :
       /\ heap' = PixelMatrix_copy(heap, i)
       /\ res' = Called("copy", <<>>, TRUE, "", <<>>)
  /\ UNCHANGED <<mat, cfg, strat, gens>>

ConvertMatrix ==
  /\ CanAllocate
  /\ \E i \in Matrices, mode \in ColorMode :
       /\ heap' = PixelMatrix_convert_mode(heap, i, mode)
       /\ res' = Called("convert_mode", <<>>, TRUE, "", <<>>)
  /\ UNCHANGED <<mat, cfg, strat, gens>>

\* m.get_region(0, 0, x2, y2)
RegionOfMatrix ==
  /\ CanAllocate
  /\ \E i \in Matrices :
       \E x2 \in 1..heap.mats[i].width, y2 \in 1..heap.mats[i].height :
         LET r == get_region(View(heap, i), 0, 0, x2, y2)
         IN /\ heap' = IF r.ok THEN NewMatrix(heap, r.val) ELSE heap
            /\ res' = Called("get_region", <<>>, r.ok, r.err, <<>>)
  /\ UNCHANGED <<mat, cfg, strat, gens>>

\* m.set_pixel(0, 0, color) with a colour of the mode
WritePixel ==
  /\ \E i \in Matrices :
       \E v \in PixelValues(heap.mats[i].mode) :
         LET color == IF Channels(heap.mats[i].mode) = 1 THEN IntColor(v[1])
                      ELSE TupleColor(v)
             r == set_pixel(View(heap, i), 0, 0, color)
         IN /\ heap' = [heap EXCEPT !.arrays[heap.mats[i].buf].data = r.m.data]
            /\ res' = Called("set_pixel", <<i>>, r.err = "", r.err, <<>>)
  /\ UNCHANGED <<mat, cfg, strat, gens>>

NextHeap ==
  \/ ReadMatrix
  \/ ToNumpy
  \/ FramePixelMatrix
  \/ FrameToNumpy
  \/ WriteArray
  \/ CopyMatrix
  \/ ConvertMatrix
  \/ RegionOfMatrix
  \/ WritePixel

SpecHeap == InitHeap /\ [][NextHeap]_vars

(***************************************************************************)
(* Properties.                                                             *)
(***************************************************************************)
Modulated == res.op = "modulate"

ResolutionMatches == <<mat.width, mat.height>> = <<cfg.width, cfg.height>>

PageDirections == {"BY_PAGE", "BY_PAGE_REVERSED"}

\* the scan class documented for each member of ScanDirection
DocumentedClass(dir) ==
  CASE dir = "HORIZONTAL" -> "HorizontalScanStrategy"
    [] dir = "HORIZONTAL_REVERSED" -> "HorizontalReversedScanStrategy"
    [] dir = "VERTICAL" -> "VerticalScanStrategy"
    [] dir = "VERTICAL_REVERSED" -> "VerticalReversedScanStrategy"
    [] dir = "BY_PAGE" -> "VerticalScanStrategyByPage"
    [] dir = "BY_PAGE_REVERSED" -> "VerticalReversedScanStrategyByPage"

DocumentedCoder(bit) ==
  IF bit = "MSB_FIRST" THEN "MSBFirstEncoding" ELSE "LSBFirstEncoding"

\* the stored elements of mat in the documented scan order of cfg
ScanPixels ==
  LET coords == get_pixel_order(DocumentedClass(cfg.scan_direction),
                                mat.width, mat.height)
  IN [k \in 1..Len(coords) |-> mat.data[coords[k][2] + 1][coords[k][1] + 1]]

\* C1: a matrix whose (width, height) differs from the config's makes
\* modulate fail with the resolution-mismatch error and return no bytes,
\* whatever the color mode, scan direction and bit order are.
C1_ResolutionMismatchFails ==
  (Modulated /\ ~ ResolutionMatches)
    => (~ res.ok /\ res.err = "ResolutionMismatch" /\ res.out = <<>>)

C1_Witness ==
  /\ Modulated
  /\ mat.width = cfg.width /\ mat.height # cfg.height
  /\ mat.mode = "RGB565"
  /\ cfg.scan_direction = "BY_PAGE_REVERSED" /\ cfg.bit_order = "LSB_FIRST"
  /\ res.err = "ResolutionMismatch"

\* C2: a matrix whose color mode is not in config.supported_modes, its
\* resolution matching the config, makes modulate fail with UnsupportedMode
\* and return no bytes.
C2_UnsupportedModeFails ==
  (Modulated /\ ResolutionMatches /\ ~ supports_mode(cfg, mat.mode))
    => (~ res.ok /\ res.err = "UnsupportedMode" /\ res.out = <<>>)

\* C3: inside modulate, every scan_direction of the enumeration resolves to
\* its scan class and every bit_order to its coder; resolution never fails.
C3_StrategyResolutionSucceeds ==
  (Modulated /\ ResolutionMatches)
    => /\ find_scan_strategy(cfg) = Ok(DocumentedClass(cfg.scan_direction))
       /\ find_bit_encoding_strategy(cfg) = Ok(DocumentedCoder(cfg.bit_order))
       /\ res.err \notin {"AttributeError", "UnmappedStrategy"}

\* C4: with a page-based scan direction and a height that is no multiple of
\* 8, modulate fails with InvalidGeometry before any byte is emitted.
C4_PageGeometryRejected ==
  (/\ Modulated /\ ResolutionMatches
   /\ cfg.scan_direction \in PageDirections
   /\ cfg.height % PageRows # 0)
    => (~ res.ok /\ res.err = "InvalidGeometry" /\ res.out = <<>>)

InRect(c, w, h) == 0 <= c[1] /\ c[1] < w /\ 0 <= c[2] /\ c[2] < h

\* no element occurs twice
Distinct(seq) == Cardinality({seq[k] : k \in 1..Len(seq)}) = Len(seq)

IsPrefix(a, b) == Len(a) <= Len(b) /\ \A i \in 1..Len(a) : a[i] = b[i]

\* C5: for every scan class and valid (width, height), every generator of
\* get_pixel_order, also when several are advanced in turn on one strategy
\* object, yields width*height coordinates, all distinct and inside the
\* rectangle; generators do not disturb each other (of two, one has yielded
\* a prefix of what the other has).
C5_FullDistinctCoverage ==
  \A g \in Generators :
    /\ \A k \in 1..Len(g.out) : InRect(g.out[k], strat.width, strat.height)
    /\ Distinct(g.out)
    /\ g.st = "done" => Len(g.out) = strat.width * strat.height
    /\ g.st = "raised" => RaisesAtStart(strat.cls, strat.height)
    /\ \A g2 \in Generators : IsPrefix(g.out, g2.out) \/ IsPrefix(g2.out, g.out)

C5_Witness ==
  /\ strat.cls = "HorizontalReversedScanStrategy"
  /\ strat.width = 2 /\ strat.height = 2
  /\ \E g \in Generators : g.st = "running" /\ Len(g.out) = 1
  /\ \E g \in Generators : g.st = "done" /\ Len(g.out) = 4

\* the k-th coordinate (k from 0) of the documented order of each class
Documented(cls, w, h, k) ==
  CASE cls = "HorizontalScanStrategy" -> <<k % w, k \div w>>
    [] cls = "HorizontalReversedScanStrategy" -> <<w - 1 - (k % w), k \div w>>
    [] cls = "VerticalScanStrategy" -> <<k \div h, k % h>>
    [] cls = "VerticalReversedScanStrategy" -> <<k \div h, h - 1 - (k % h)>>
    [] cls = "VerticalScanStrategyByPage" ->
         <<(k % (8 * w)) \div 8, (k \div (8 * w)) * 8 + (k % 8)>>
    [] cls = "VerticalReversedScanStrategyByPage" ->
         <<(k % (8 * w)) \div 8, (k \div (8 * w)) * 8 + (7 - (k % 8))>>

\* C6: each scan class yields its coordinates in the documented order:
\* row-major, row-major with x descending, column-major, column-major with
\* y descending, page / x / y_offset ascending, page / x / y_offset
\* descending.
C6_DocumentedOrder ==
  \A g \in Generators : \A k \in 1..Len(g.out) :
    g.out[k] = Documented(strat.cls, strat.width, strat.height, k - 1)

C6_Witness ==
  /\ strat.cls = "VerticalReversedScanStrategyByPage"
  /\ strat.width = 2 /\ strat.height = 2 * PageRows
  /\ \E g \in Generators :
       /\ g.st = "done"
       /\ g.out[1] = <<0, 7>> /\ g.out[8] = <<0, 0>> /\ g.out[9] = <<1, 7>>
       /\ g.out[17] = <<0, 15>> /\ g.out[32] = <<1, 8>>

\* C7: for a mono matrix with height a multiple of 8, page scan and
\* MSB-first, modulate returns width*(height/8) bytes and bit (7-i) of the
\* byte at index page*width + x is pixel (x, page*8+i).
C7_MonoPageBytes ==
  (/\ Modulated /\ mat.mode = "MONO" /\ is_compatible_with(cfg, mat)
   /\ cfg.height % PageRows = 0
   /\ cfg.scan_direction = "BY_PAGE" /\ cfg.bit_order = "MSB_FIRST")
    => /\ res.ok
       /\ Len(res.out) = mat.width * (mat.height \div PageRows)
       /\ \A page \in 0..(mat.height \div PageRows - 1), x \in 0..(mat.width - 1),
             i \in 0..7 :
            (res.out[page * mat.width + x + 1] \div Pow2(7 - i)) % 2
              = mat.data[page * PageRows + i + 1][x + 1][1]

\* the k-th group of 8 of a bit stream, the last one right-padded with zeros
PaddedGroup(bits, k) ==
  [j \in 1..8 |-> IF 8 * (k - 1) + j <= Len(bits) THEN bits[8 * (k - 1) + j][1]
                  ELSE 0]

\* C8: for a mono matrix under a non-page scan order, modulate returns
\* ceil(width*height/8) bytes; byte k encodes pixels 8k..8k+7 of the scan
\* ordered stream with the configured coder, the last group right-padded
\* with zeros.
C8_MonoPackedBytes ==
  (/\ Modulated /\ mat.mode = "MONO" /\ is_compatible_with(cfg, mat)
   /\ cfg.scan_direction \notin PageDirections)
    => /\ res.ok
       /\ Len(res.out) = (mat.width * mat.height + 7) \div 8
       /\ \A k \in 1..Len(res.out) :
            res.out[k] = encode_by_bits(DocumentedCoder(cfg.bit_order),
                                        PaddedGroup(ScanPixels, k)).val

\* the config admits the matrix and its scan order is defined on it
ValidRequest ==
  /\ is_compatible_with(cfg, mat)
  /\ cfg.scan_direction \in PageDirections => cfg.height % PageRows = 0

\* C9: for a GRAY_8 matrix, modulate emits one byte per pixel in scan
\* order, equal to the pixel value, under MSB-first and LSB-first alike.
C9_GrayBytes ==
  (Modulated /\ mat.mode = "GRAY_8" /\ ValidRequest)
    => /\ res.ok
       /\ res.out = [k \in 1..Len(ScanPixels) |-> ScanPixels[k][1]]

\* C10: for an RGB565 matrix, modulate succeeds for every 16-bit value and
\* emits two bytes per pixel in scan order, (value>>8)&0xFF then
\* value&0xFF, under any bit order.
C10_Rgb565Bytes ==
  (Modulated /\ mat.mode = "RGB565" /\ ValidRequest)
    => /\ res.ok
       /\ Len(res.out) = 2 * mat.width * mat.height
       /\ \A k \in 1..Len(ScanPixels) :
            /\ res.out[2 * k - 1] = (ScanPixels[k][1] \div 256) % 256
            /\ res.out[2 * k] = ScanPixels[k][1] % 256

\* the byte b with its bit order reversed
ReverseBits(b) ==
  LET bits == [j \in 0..7 |-> (b \div Pow2(j)) % 2]
  IN bits[0] * 128 + bits[1] * 64 + bits[2] * 32 + bits[3] * 16
       + bits[4] * 8 + bits[5] * 4 + bits[6] * 2 + bits[7]

\* C11: for an RGB_888 / RGB_8888 matrix, modulate emits three / four bytes
\* per pixel in scan order, R, G, B (then A); under MSB-first each byte is
\* the channel value, under LSB-first its bit-reversal.
C11_RgbChannelBytes ==
  (Modulated /\ mat.mode \in {"RGB_888", "RGB_8888"} /\ ValidRequest)
    => /\ res.ok
       /\ Len(res.out) = Channels(mat.mode) * mat.width * mat.height
       /\ \A k \in 1..Len(ScanPixels), ch \in 1..Channels(mat.mode) :
            res.out[Channels(mat.mode) * (k - 1) + ch]
              = IF cfg.bit_order = "MSB_FIRST" THEN ScanPixels[k][ch]
                ELSE ReverseBits(ScanPixels[k][ch])

Uncalibrated(c) ==
  ScreenConfig(c.width, c.height, c.supported_modes, c.scan_direction,
               c.bit_order, 0, 0, {})

\* C13: the outcome of modulate does not depend on row_offset, col_offset
\* or metadata: it is the outcome for the same config without them.
C13_OffsetsAndMetadataIgnored ==
  Modulated
    => LET r == Modulator_modulate(mat, Uncalibrated(cfg))
       IN res.ok = r.ok /\ res.err = r.err /\ res.out = r.val

C13_Witness ==
  /\ Modulated
  /\ cfg.row_offset = 1 /\ cfg.col_offset = 1 /\ cfg.metadata # {}
  /\ ResolutionMatches /\ cfg.width = 2
  /\ res.err = "AttributeError"

\* the latest call is op
CalledOp(op) == res.op = op

\* C14: get_pixel(x, y) returns the element stored at row y, column x when
\* 0 <= x < width and 0 <= y < height, and fails with OutOfRange for every
\* other (x, y), negative coordinates and the swapped case (x valid as a
\* row, y valid as a column) included.
C14_GetPixelRowYColumnX ==
  CalledOp("get_pixel")
    => LET x == res.args[1]
           y == res.args[2]
       IN IF 0 <= x /\ x < mat.width /\ 0 <= y /\ y < mat.height
            THEN res.ok /\ res.out = mat.data[y + 1][x + 1]
            ELSE ~ res.ok /\ res.err = "OutOfRange"

C14_Witness ==
  /\ CalledOp("get_pixel")
  /\ mat.width = 2 /\ mat.height = 1
  /\ res.args = <<1, 0>> /\ res.ok
  /\ res.out = mat.data[1][2] /\ mat.data[1][2] # mat.data[1][1]

\* C15: when set_pixel, fill or set_region fails, every pixel of the matrix
\* is what it was before the call; no value out of range is stored.
C15_FailedWriteChangesNothing ==
  [][(res'.op \in {"set_pixel", "fill", "set_region"} /\ ~ res'.ok)
       => mat' = mat]_vars

C15_Witness ==
  /\ CalledOp("set_pixel") /\ res.err = "RangeError"
  /\ res.args[1] = 1 /\ res.args[2] = 0
  /\ mat.mode = "GRAY_8" /\ mat.data[1][2] = <<178>>

\* C16: get_region(x1, y1, x2, y2) with 0 <= x1 < x2 <= width and
\* 0 <= y1 < y2 <= height succeeds and returns a matrix of the same mode and
\* of size (x2-x1) x (y2-y1) whose pixel (i, j) is the source's pixel
\* (x1+i, y1+j); get_region(0, 0, width, height) returns the whole matrix.
C16_GetRegionHalfOpen ==
  CalledOp("get_region")
    => LET x1 == res.args[1]
           y1 == res.args[2]
           x2 == res.args[3]
           y2 == res.args[4]
       IN (0 <= x1 /\ x1 < x2 /\ x2 <= mat.width
           /\ 0 <= y1 /\ y1 < y2 /\ y2 <= mat.height)
            => /\ res.ok
               /\ res.out.mode = mat.mode
               /\ res.out.width = x2 - x1 /\ res.out.height = y2 - y1
               /\ \A i \in 0..(x2 - x1 - 1), j \in 0..(y2 - y1 - 1) :
                    res.out.data[j + 1][i + 1] = mat.data[y1 + j + 1][x1 + i + 1]

\* C17: set_region(x, y, sub) fails with ModeMismatch when the modes
\* differ, with OutOfRange whenever x < 0, y < 0, x + sub.width > width or
\* y + sub.height > height, and succeeds in exactly the remaining cases,
\* the rectangle then holding the pixels of sub.
C17_SetRegionFitsOrFails ==
  CalledOp("set_region")
    => LET x == res.args[1]
           y == res.args[2]
           sub == res.args[3]
       IN IF sub.mode # mat.mode
            THEN ~ res.ok /\ res.err = "ModeMismatch"
          ELSE IF x < 0 \/ y < 0 \/ x + sub.width > mat.width
                  \/ y + sub.height > mat.height
            THEN ~ res.ok /\ res.err = "OutOfRange"
          ELSE /\ res.ok
               /\ \A i \in 0..(sub.width - 1), j \in 0..(sub.height - 1) :
                    mat.data[y + j + 1][x + i + 1] = sub.data[j + 1][i + 1]

\* ((R >> 3) << 11) | ((G >> 2) << 5) | (B >> 3), on integers
Rgb565Of(R, G, B) == (R \div 8) * 2048 + (G \div 4) * 32 + (B \div 8)

\* C20: converting 8-bit RGB to RGB565, by convert_mode from RGB_888 or
\* RGB_8888 and by from_image, stores
\* ((R >> 3) << 11) | ((G >> 2) << 5) | (B >> 3) for every pixel, as a
\* 16-bit value: no bit is lost to narrower arithmetic on the way.
C20_Rgb565Packing ==
  ((CalledOp("convert_mode") /\ res.args = <<"RGB565">>
      /\ mat.mode \in {"RGB_888", "RGB_8888"})
   \/ CalledOp("from_image"))
    => \A r \in 1..mat.height, c \in 1..mat.width :
         res.out.data[r][c]
           = <<Rgb565Of(mat.data[r][c][1], mat.data[r][c][2], mat.data[r][c][3])>>

\* the elements of every matrix of the heap h
Pixels(h) == [i \in 1..Len(h.mats) |-> View(h, i).data]

\* C18: no public operation gives the caller a mutable alias of a matrix's
\* storage: writing to the buffer the matrix was constructed from, or to an
\* array obtained from the matrix property, to_numpy, Frame.pixel_matrix or
\* Frame.to_numpy, changes no pixel of any matrix.
C18_NoMutableAlias ==
  [][res'.op = "array_write" => Pixels(heap') = Pixels(heap)]_vars

\* C19: convert_mode (to every mode, the matrix's own included), get_region
\* and copy return a matrix on storage of its own: the call changes no
\* array that existed, no two matrices share an array, and set_pixel on one
\* matrix changes no pixel of another.
C19_DerivedMatricesIndependent ==
  [][/\ \A i, j \in 1..Len(heap'.mats) :
          i # j => heap'.mats[i].buf # heap'.mats[j].buf
     /\ res'.op \in {"copy", "convert_mode", "get_region"}
          => /\ \A a \in 1..Len(heap.arrays) : heap'.arrays[a] = heap.arrays[a]
             /\ \A i \in 1..Len(heap.mats) : heap'.mats[i] = heap.mats[i]
     /\ res'.op = "set_pixel"
          => \A j \in 1..Len(heap.mats) :
               j # res'.args[1] => View(heap', j).data = View(heap, j).data]_vars

C19_Witness ==
  /\ CalledOp("set_pixel") /\ res.args = <<2>> /\ res.ok
  /\ Len(heap.mats) = 2
  /\ heap.mats[1].mode = "RGB_8888" /\ heap.mats[1].width = 2
  /\ heap.mats[2].mode = "RGB_8888" /\ heap.mats[2].width = 2
  /\ View(heap, 2).data # View(heap, 1).data

\* the values an element of the mode may hold, per channel
ValidRange(mode) ==
  CASE mode = "MONO" -> 0..1
    [] mode = "RGB565" -> 0..65535
    [] OTHER -> 0..255

\* the buffer of m has the shape of its size and mode, and valid elements
WellFormed(m) ==
  /\ Len(m.data) = m.height
  /\ \A r \in 1..m.height :
       /\ Len(m.data[r]) = m.width
       /\ \A c \in 1..m.width :
            /\ Len(m.data[r][c]) = (IF m.mode = "RGB_888" THEN 3
                                    ELSE IF m.mode = "RGB_8888" THEN 4 ELSE 1)
            /\ \A ch \in 1..Len(m.data[r][c]) : m.data[r][c][ch] \in ValidRange(m.mode)

\* C21: after construction and any sequence of set_pixel, fill and
\* set_region calls, successful or failing, a matrix keeps its width,
\* height and mode, its buffer keeps the shape of the mode, and every
\* stored element lies in the mode's valid range.
C21_MatrixInvariants ==
  [][/\ mat'.width = mat.width /\ mat'.height = mat.height
     /\ mat'.mode = mat.mode
     /\ WellFormed(mat')]_vars

C21_Witness ==
  /\ CalledOp("set_region") /\ res.err = "BroadcastError"
  /\ mat.mode = "RGB565" /\ mat.width = 2 /\ mat.height = 2
  /\ mat.data[1][1] = <<65535>> /\ mat.data[1][2] = <<178>>
  /\ mat.data[2][1] = <<178>> /\ mat.data[2][2] = <<65535>>

\* the fields of a config are those a constructor call accepts
ValidConfig(c) ==
  /\ c.width > 0 /\ c.height > 0
  /\ c.row_offset >= 0 /\ c.col_offset >= 0
  /\ Len(c.supported_modes) >= 1

\* C22: after construction and any sequence of calls of the setters of
\* width, height, scan_direction, bit_order, row_offset and col_offset and of
\* add_supported_mode and remove_supported_mode, width and height are
\* positive, both offsets are non-negative and at least one mode is
\* supported; a call that is rejected leaves every field as it was.
C22_ConfigStaysValid ==
  [][/\ ValidConfig(cfg) /\ ValidConfig(cfg')
     /\ (~ CalledOp("modulate")' /\ ~ res'.ok => cfg' = cfg)]_vars

\* every kind of rejection has been survived: the config holds what the
\* accepted calls gave it, and the last call, a removal of the only mode
\* left, was rejected
C22_Witness ==
  /\ CalledOp("remove_supported_mode") /\ res.err = "LastMode"
  /\ cfg = ScreenConfig(2, 1, <<"GRAY_8">>, "BY_PAGE", "LSB_FIRST", 1, 1, {})

\* the constructor would reject what the dict holds: a width or height that
\* is no positive int, an offset that is no non-negative int, no mode
ConstructorRejects(data) ==
  \/ \E key \in {"width", "height"} \cap DOMAIN data :
       data[key].type # "int" \/ data[key].n <= 0
  \/ \E key \in {"row_offset", "col_offset"} \cap DOMAIN data :
       data[key].type # "int" \/ data[key].n < 0
  \/ "supported_modes" \in DOMAIN data /\ data["supported_modes"] = <<>>

\* C23: from_dict(to_dict(c)) is a config equal to c in width, height,
\* supported modes, scan direction, bit order, offsets and metadata, and
\* from_dict fails on every dict holding what the constructor rejects: a
\* non-positive width or height, a negative offset, an empty supported_modes.
C23_DictRoundTrip ==
  CalledOp("from_dict")
    => /\ res.args[1] = to_dict(cfg) => res.ok /\ res.out = cfg
       /\ ConstructorRejects(res.args[1]) => ~ res.ok

\* a config with offsets, metadata and several modes came back from its dict
C23_Witness ==
  /\ CalledOp("from_dict") /\ res.ok
  /\ res.args[1] = to_dict(cfg)
  /\ res.args[1].supported_modes = <<2, 5>>
  /\ res.args[1].scan_direction = 6
  /\ res.out = ScreenConfig(2, 1, <<"GRAY_8", "RGB565">>, "BY_PAGE_REVERSED",
                            "LSB_FIRST", 1, 1, {<<"controller", "SSD1306">>})

\* C24: for every byte b in 0..255, the MSB-first coder applied to the 8
\* bits b is broken into returns b; the first bit is bit 7 of b, the last
\* bit 0.
C24_MsbEncodeInvertsDecode ==
  CalledOp("encoding_by_decimal") /\ res.args[1] = "MSBFirstEncoding"
    => res.ok /\ res.out = <<res.args[2]>>

C24_Witness ==
  /\ CalledOp("encoding_by_decimal")
  /\ res.args = <<"MSBFirstEncoding", 178>>
  /\ res.out = <<178>>

\* C25: for every list of 8 bits, the byte of the LSB-first coder is the
\* bit-reversal of the byte of the MSB-first coder for the same list.
C25_LsbIsReversedMsb ==
  CalledOp("encode_by_both") => res.out[2] = ReverseBits(res.out[1])

C25_Witness ==
  /\ CalledOp("encode_by_both")
  /\ res.args = << <<1, 0, 1, 1, 0, 0, 1, 0>> >>
  /\ res.out = <<178, 77>>

\* the list holds a value that is neither 0 nor 1
HasNonBit(pixels) == \E i \in 1..Len(pixels) : pixels[i] \notin {0, 1}

\* C26: a coder returns a byte only for exactly 8 values each 0 or 1: a list
\* of 8 holding another value fails with InvalidBitValue, a list of bits of
\* another length fails with ArityError (a list wrong in both ways fails
\* with either), and every value returned lies in 0..255.
C26_CodersRejectOtherInputs ==
  CalledOp("encode_by_bits")
    => LET pixels == res.args[2]
       IN /\ res.ok => /\ Len(pixels) = 8 /\ ~ HasNonBit(pixels)
                       /\ res.out[1] \in 0..255
          /\ Len(pixels) # 8 /\ ~ HasNonBit(pixels)
               => ~ res.ok /\ res.err = "ArityError"
          /\ Len(pixels) = 8 /\ HasNonBit(pixels)
               => ~ res.ok /\ res.err = "InvalidBitValue"
          /\ Len(pixels) # 8 /\ HasNonBit(pixels)
               => ~ res.ok /\ res.err \in {"ArityError", "InvalidBitValue"}

\* C27: an RGB565 matrix converted to RGB_888 and back holds exactly its
\* original 16-bit values; an RGB_888 matrix converted to RGB565 and back
\* holds its channels with the low 3, 2 and 3 bits cleared and nothing else
\* changed.
C27_Rgb565RoundTrips ==
  CalledOp("convert_twice")
    => /\ res.out.mode = mat.mode
       /\ \A r \in 1..mat.height, c \in 1..mat.width :
            LET p == mat.data[r][c]
            IN res.out.data[r][c]
                 = IF mat.mode = "RGB565" THEN p
                   ELSE <<(p[1] \div 8) * 8, (p[2] \div 4) * 4, (p[3] \div 8) * 8>>

\* a setter has been called with success since the config was constructed
\* with the default scan direction and bit order
Reconfigured == cfg.scan_direction # "HORIZONTAL" \/ cfg.bit_order # "MSB_FIRST"

====
